---------------------------- MODULE Spec2Model ----------------------------
(***************************************************************************)
(* A model of the bitcask storage engine (src/src/engine.rs,               *)
(* src/src/files.rs): one directory on disk, whose segment files are byte  *)
(* sequences written by the bincode encoding of Entry, and a set of        *)
(* handles, each the Bitcask struct of one process that opened the         *)
(* directory.                                                              *)
(***************************************************************************)
EXTENDS Integers, Sequences, FiniteSets, TLC

(***************************************************************************)
(* Bounds of the model.                                                    *)
(***************************************************************************)
\* handles (processes) that may have the directory open at once
NumHandles == 2
\* records appended to the directory over a behaviour
MaxPuts == 2
\* segment files in the directory
MaxFiles == 3
\* Options.max_data_size given by the callers of the model (main.rs uses 100)
MaxDataSize == 12
\* wall-clock readings: SystemTime::now() yields one of 1..MaxTime
MaxTime == 2

\* bytes damaged at rest over a behaviour
MaxFlips == 1

Handles == 1..NumHandles
\* keys and values are byte strings; two of each, of different lengths
Keys == {<<107>>, <<107, 50>>}
Values == {<<97>>, <<98, 99>>}
Timestamps == 1..MaxTime

(***************************************************************************)
(* Options, as a handle is opened with them.                               *)
(***************************************************************************)
OptionsDefault ==
    [read_write |-> FALSE, sync_on_put |-> FALSE, enable_compression |-> FALSE,
     max_data_size |-> MaxDataSize]
OptionsReadWrite == [OptionsDefault EXCEPT !.read_write = TRUE]
OptionsSyncOnPut == [OptionsReadWrite EXCEPT !.sync_on_put = TRUE]

(***************************************************************************)
(* bincode, config::standard(): integers are variable-length encoded,      *)
(* little endian; a byte below 251 is the value itself, 251 announces a    *)
(* u16, 252 a u32, 253 a u64.  The integers the model encodes stay below   *)
(* 2^31.                                                                   *)
(***************************************************************************)
\* `x` named once and used in `F`: a let-binding of the source
With(x, F(_)) == F(x)

RECURSIVE LittleEndian(_, _)
LittleEndian(n, width) ==
    IF width = 0 THEN <<>>
    ELSE <<n % 256>> \o LittleEndian(n \div 256, width - 1)

\* the integer of little-endian bytes; one of 2^31 or more, which only bytes
\* that no encoder wrote as this integer can give, is kept as 2^31 - 1
RECURSIVE FromLittleEndian(_)
FromLittleEndian(bytes) ==
    IF bytes = <<>> THEN 0
    ELSE With(FromLittleEndian(Tail(bytes)), LAMBDA high :
            IF high > 8388607 THEN 2147483647
            ELSE Head(bytes) + 256 * high)

VarintEncode(n) ==
    IF n < 251 THEN <<n>>
    ELSE IF n < 65536 THEN <<251>> \o LittleEndian(n, 2)
    ELSE <<252>> \o LittleEndian(n, 4)

\* a read of `n` bytes at offset `off` (0-based): read_exact fails with
\* UnexpectedEof when fewer than n bytes are left
ReadExact(bytes, off, n) ==
    IF off + n > Len(bytes) THEN [tag |-> "UnexpectedEof"]
    ELSE [tag |-> "ok", val |-> SubSeq(bytes, off + 1, off + n), next |-> off + n]

\* the `width` little-endian bytes that follow the first byte of an integer
FixedDecode(bytes, off, width) ==
    With(ReadExact(bytes, off, width), LAMBDA r :
        IF r.tag = "ok"
        THEN [tag |-> "ok", val |-> FromLittleEndian(r.val), next |-> r.next]
        ELSE r)

\* decode of an unsigned integer of `bits` bits
VarintDecode(bytes, off, bits) ==
    With(ReadExact(bytes, off, 1), LAMBDA first :
        IF first.tag # "ok" THEN first
        ELSE IF first.val[1] < 251
        THEN [tag |-> "ok", val |-> first.val[1], next |-> off + 1]
        ELSE IF first.val[1] = 251 THEN FixedDecode(bytes, off + 1, 2)
        ELSE IF first.val[1] = 252 THEN FixedDecode(bytes, off + 1, 4)
        ELSE IF first.val[1] = 253 /\ bits = 64 THEN FixedDecode(bytes, off + 1, 8)
        ELSE [tag |-> "Invalid"])

\* decode of a Vec<u8>: a u64 length, then that many bytes
BytesDecode(bytes, off) ==
    With(VarintDecode(bytes, off, 64), LAMBDA n :
        IF n.tag # "ok" THEN n ELSE ReadExact(bytes, n.next, n.val))

\* decode of a bool: one byte, 0 or 1
BoolDecode(bytes, off) ==
    With(ReadExact(bytes, off, 1), LAMBDA r :
        IF r.tag # "ok" THEN r
        ELSE IF r.val[1] \in {0, 1}
        THEN [tag |-> "ok", val |-> (r.val[1] = 1), next |-> r.next]
        ELSE [tag |-> "Invalid"])

(***************************************************************************)
(* Entry, the on-disk record, and its checksum.  crc32fast is a library    *)
(* outside the repository: its digest of the byte stream (timestamp as 8   *)
(* little-endian bytes, key, value) is modelled by a 24-bit polynomial     *)
(* digest of the same byte stream.                                         *)
(***************************************************************************)
RECURSIVE Hasher(_, _)
Hasher(acc, bytes) ==
    IF bytes = <<>> THEN acc
    ELSE Hasher((acc * 31 + Head(bytes) + 1) % 16777216, Tail(bytes))

generate_checksum(timestamp, key, value) ==
    Hasher(Hasher(Hasher(5381, LittleEndian(timestamp, 8)), key), value)

EntryNew(key, value, timestamp) ==
    [crc_checksum |-> generate_checksum(timestamp, key, value),
     timestamp |-> timestamp,
     key |-> key,
     value |-> value,
     is_deleted |-> FALSE]

mark_deleted(entry) == [entry EXCEPT !.is_deleted = TRUE]

\* #[derive(Encode)]: the five fields in declaration order
Encode(entry) ==
    VarintEncode(entry.crc_checksum)
    \o VarintEncode(entry.timestamp)
    \o VarintEncode(Len(entry.key)) \o entry.key
    \o VarintEncode(Len(entry.value)) \o entry.value
    \o <<IF entry.is_deleted THEN 1 ELSE 0>>

\* the numbers of bytes written when the encoder has written some of the
\* fields, but not the last: the places between two fields where a write of
\* encode_into_std_write can fail
FaultPoints(entry) ==
    With(Len(VarintEncode(entry.crc_checksum)), LAMBDA crc :
      With(crc + Len(VarintEncode(entry.timestamp)), LAMBDA ts :
        With(ts + Len(VarintEncode(Len(entry.key))) + Len(entry.key), LAMBDA k :
          {0, crc, ts, k,
           k + Len(VarintEncode(Len(entry.value))) + Len(entry.value)})))

\* #[derive(Decode)]: one Entry from offset `off`; [tag |-> "ok", entry, next],
\* or the error of the first field that fails
Decode(bytes, off) ==
    With(VarintDecode(bytes, off, 32), LAMBDA crc :
      IF crc.tag # "ok" THEN crc ELSE
      With(VarintDecode(bytes, crc.next, 64), LAMBDA ts :
        IF ts.tag # "ok" THEN ts ELSE
        With(BytesDecode(bytes, ts.next), LAMBDA k :
          IF k.tag # "ok" THEN k ELSE
          With(BytesDecode(bytes, k.next), LAMBDA v :
            IF v.tag # "ok" THEN v ELSE
            With(BoolDecode(bytes, v.next), LAMBDA d :
              IF d.tag # "ok" THEN d ELSE
              [tag |-> "ok",
               entry |-> [crc_checksum |-> crc.val,
                          timestamp |-> ts.val,
                          key |-> k.val,
                          value |-> v.val,
                          is_deleted |-> d.val],
               next |-> d.next])))))

(***************************************************************************)
(* Segment files.  A file of the directory is named working_file_<id>; the *)
(* model keeps the decimal digits of <id> as the name, so that naming and  *)
(* parsing are the conversions the code performs.                          *)
(***************************************************************************)
RECURSIVE FileName(_)
FileName(id) ==
    IF id < 10 THEN <<id>> ELSE FileName(id \div 10) \o <<id % 10>>

RECURSIVE ParseId(_)
ParseId(name) ==
    IF name = <<>> THEN 0
    ELSE 10 * ParseId(SubSeq(name, 1, Len(name) - 1)) + name[Len(name)]

\* the order of file names as strings
RECURSIVE NameLeq(_, _)
NameLeq(a, b) ==
    IF a = <<>> THEN TRUE
    ELSE IF b = <<>> THEN FALSE
    ELSE IF Head(a) # Head(b) THEN Head(a) < Head(b)
    ELSE NameLeq(Tail(a), Tail(b))

\* A faulty sort, against which C18 is tested: the paths are sorted as
\* strings, so that working_file_10 comes before working_file_2.
RECURSIVE SortByKey_ByName(_)
SortByKey_ByName(names) ==
    IF names = {} THEN <<>>
    ELSE LET first == CHOOSE n \in names : \A m \in names : NameLeq(n, m)
         IN  <<first>> \o SortByKey_ByName(names \ {first})

\* data_files_paths.sort_by_key(parsed id): ascending by numeric id
RECURSIVE SortByKey(_)
SortByKey(names) ==
    IF names = {} THEN <<>>
    ELSE LET first == CHOOSE n \in names : \A m \in names : ParseId(n) <= ParseId(m)
         IN  <<first>> \o SortByKey(names \ {first})

\* A faulty write, against which C19 is tested: the file is cut off behind
\* the bytes written.
WriteAt_Truncates(bytes, off, data) == SubSeq(bytes, 1, off) \o data

\* a write of `data` at offset `off` of a file
WriteAt(bytes, off, data) ==
    SubSeq(bytes, 1, off) \o data
    \o SubSeq(bytes, off + Len(data) + 1, Len(bytes))

\* A faulty WorkingFile::open, against which C12 is tested: the file is
\* opened with create instead of create_new, so an existing file is reopened.
WorkingFileOpen_Reopens(d, id) ==
    [tag |-> "ok",
     dir |-> [n \in DOMAIN d \cup {FileName(id)} |->
                 IF n \in DOMAIN d THEN d[n] ELSE <<>>],
     file |-> [path |-> FileName(id), size_b |-> 0]]

\* WorkingFile::open: create_new fails when the file exists
WorkingFileOpen(d, id) ==
    IF FileName(id) \in DOMAIN d THEN [tag |-> "Err"]
    ELSE [tag |-> "ok",
          dir |-> [n \in DOMAIN d \cup {FileName(id)} |->
                      IF n = FileName(id) THEN <<>> ELSE d[n]],
          file |-> [path |-> FileName(id), size_b |-> 0]]

\* WorkingFile::append: seek to the end of the file, write, count the bytes
append(wf, d, entry) ==
    With(Encode(entry), LAMBDA data :
        [dir |-> [d EXCEPT ![wf.path] = WriteAt(@, Len(@), data)],
         file |-> [wf EXCEPT !.size_b = @ + Len(data)],
         bytes_written |-> Len(data)])

\* WorkingFile::get_working_file_id: the number of working files
get_working_file_id(d) == Cardinality(DOMAIN d)

(***************************************************************************)
(* The key directory: a HashMap from key to DirEntry.                      *)
(***************************************************************************)
DirEntryNew(file_name, entry_pos, timestamp) ==
    [file_name |-> file_name, entry_pos |-> entry_pos, timestamp |-> timestamp]

MapInsert(map, key, v) ==
    [x \in DOMAIN map \cup {key} |-> IF x = key THEN v ELSE map[x]]

MapRemove(map, key) == [x \in DOMAIN map \ {key} |-> map[x]]

\* A faulty replay loop, against which C4 is tested: an end of file in the
\* middle of a record is reported as an error instead of ending the file.
RECURSIVE ReplayFile_TornTailFails(_, _, _, _)
ReplayFile_TornTailFails(file_name, bytes, off, key_dir) ==
    With(Decode(bytes, off), LAMBDA disk_entry :
        IF disk_entry.tag = "UnexpectedEof" /\ off >= Len(bytes)
        THEN [tag |-> "ok", key_dir |-> key_dir]
        ELSE IF disk_entry.tag # "ok" THEN [tag |-> "Err"]
        ELSE ReplayFile_TornTailFails(file_name, bytes, disk_entry.next,
                 IF disk_entry.entry.is_deleted
                 THEN MapRemove(key_dir, disk_entry.entry.key)
                 ELSE MapInsert(key_dir, disk_entry.entry.key,
                          DirEntryNew(file_name, off, disk_entry.entry.timestamp))))

\* the replay loop over one file, from offset `off`
RECURSIVE ReplayFile(_, _, _, _)
ReplayFile(file_name, bytes, off, key_dir) ==
    With(Decode(bytes, off), LAMBDA disk_entry :
        IF disk_entry.tag = "UnexpectedEof" THEN [tag |-> "ok", key_dir |-> key_dir]
        ELSE IF disk_entry.tag # "ok" THEN [tag |-> "Err"]
        ELSE ReplayFile(file_name, bytes, disk_entry.next,
                 IF disk_entry.entry.is_deleted
                 THEN MapRemove(key_dir, disk_entry.entry.key)
                 ELSE MapInsert(key_dir, disk_entry.entry.key,
                          DirEntryNew(file_name, off, disk_entry.entry.timestamp))))

RECURSIVE ReplayAll(_, _, _)
ReplayAll(paths, d, key_dir) ==
    IF paths = <<>> THEN [tag |-> "ok", key_dir |-> key_dir]
    ELSE With(ReplayFile(Head(paths), d[Head(paths)], 0, key_dir), LAMBDA r :
             IF r.tag # "ok" THEN r ELSE ReplayAll(Tail(paths), d, r.key_dir))

build_key_dir_map_and_files_pool(d) ==
    With(ReplayAll(SortByKey(DOMAIN d), d, <<>>), LAMBDA r :
        IF r.tag # "ok" THEN r
        ELSE [tag |-> "ok", key_dir |-> r.key_dir, files_pool |-> DOMAIN d])

(***************************************************************************)
(* The Bitcask struct of one process.  An Option is a sequence of length   *)
(* at most one; files_pool is the set of names with a cached file handle.  *)
(* A handle that was never opened, was dropped, or whose process panicked  *)
(* is NoHandle.                                                            *)
(***************************************************************************)
NoHandle ==
    [open |-> FALSE, _lock |-> FALSE, working_file |-> <<>>,
     working_file_id |-> <<>>, key_dir |-> <<>>, options |-> OptionsDefault,
     files_pool |-> {}]

BitcaskNew(lock_file, working_file, working_file_id, key_dir, options, files_pool) ==
    [open |-> TRUE, _lock |-> lock_file, working_file |-> working_file,
     working_file_id |-> working_file_id, key_dir |-> key_dir,
     options |-> options, files_pool |-> files_pool]

\* Option::unwrap_or_default of a usize
unwrap_or_default(opt) == IF opt = <<>> THEN 0 ELSE opt[1]

\* Bitcask::try_acquire_write_lock: try_lock().expect(..) panics when a live
\* process holds the lock; `locked` says whether one does
try_acquire_write_lock(locked) ==
    IF locked THEN [tag |-> "Panic"] ELSE [tag |-> "ok"]

\* Bitcask::open.  The result: tag ("Ok", "Err", "Panic"), the handle built,
\* the directory, and whether bitcask.lock now exists.
OpenFailed(tag, d, lock_exists) ==
    [tag |-> tag, handle |-> NoHandle, dir |-> d, lock_file |-> lock_exists]

\* Option::unwrap_or: open(directory, None) opens with Options::default()
unwrap_or(opt, default) == IF opt = <<>> THEN default ELSE opt[1]

\* A faulty open, against which C16 is tested: bitcask.lock is created before
\* read_write is looked at, so a read-only open creates it too.
open_LocksAlways(d, lock_exists, locked, options) ==
    With(build_key_dir_map_and_files_pool(d), LAMBDA built :
      IF built.tag # "ok" THEN OpenFailed("Err", d, lock_exists)
      ELSE IF ~options.read_write
      THEN [tag |-> "Ok",
            handle |-> BitcaskNew(FALSE, <<>>, <<>>, built.key_dir, options,
                                  built.files_pool),
            dir |-> d, lock_file |-> TRUE]
      ELSE IF try_acquire_write_lock(locked).tag # "ok"
      THEN OpenFailed("Panic", d, TRUE)
      ELSE With(WorkingFileOpen(d, get_working_file_id(d)), LAMBDA working_file :
             IF working_file.tag # "ok" THEN OpenFailed("Err", d, TRUE)
             ELSE [tag |-> "Ok",
                   handle |-> BitcaskNew(TRUE, <<working_file.file>>,
                                         <<get_working_file_id(d)>>, built.key_dir,
                                         options, built.files_pool),
                   dir |-> working_file.dir, lock_file |-> TRUE]))

open(d, lock_exists, locked, options) ==
    With(build_key_dir_map_and_files_pool(d), LAMBDA built :
      IF built.tag # "ok" THEN OpenFailed("Err", d, lock_exists)
      ELSE IF ~options.read_write
      THEN [tag |-> "Ok",
            handle |-> BitcaskNew(FALSE, <<>>, <<>>, built.key_dir, options,
                                  built.files_pool),
            dir |-> d, lock_file |-> lock_exists]
      ELSE IF try_acquire_write_lock(locked).tag # "ok"
      THEN OpenFailed("Panic", d, TRUE)
      ELSE With(WorkingFileOpen(d, get_working_file_id(d)), LAMBDA working_file :
             IF working_file.tag # "ok" THEN OpenFailed("Err", d, TRUE)
             ELSE [tag |-> "Ok",
                   handle |-> BitcaskNew(TRUE, <<working_file.file>>,
                                         <<get_working_file_id(d)>>, built.key_dir,
                                         options, built.files_pool),
                   dir |-> working_file.dir, lock_file |-> TRUE]))

\* Bitcask::get_file_containing_key: the working file, a pooled file, or a
\* file opened now and pooled; unwrap() of a missing working file panics
get_file_containing_key(self, d, file_name) ==
    IF self.working_file = <<>> THEN [tag |-> "Panic"]
    ELSE IF file_name = self.working_file[1].path
    THEN [tag |-> "ok", files_pool |-> self.files_pool]
    ELSE IF file_name \in self.files_pool
    THEN [tag |-> "ok", files_pool |-> self.files_pool]
    ELSE IF file_name \notin DOMAIN d THEN [tag |-> "Err"]
    ELSE [tag |-> "ok", files_pool |-> self.files_pool \cup {file_name}]

\* Bitcask::get.  The result: tag ("Ok", "NotFound", "Err", "Panic"), the
\* value read, and the handle afterwards.
get(self, d, key) ==
    IF key \notin DOMAIN self.key_dir
    THEN [tag |-> "NotFound", val |-> <<>>, handle |-> self]
    ELSE With(get_file_containing_key(self, d, self.key_dir[key].file_name),
              LAMBDA data_file :
           IF data_file.tag # "ok"
           THEN [tag |-> data_file.tag, val |-> <<>>, handle |-> self]
           ELSE With(Decode(d[self.key_dir[key].file_name],
                            self.key_dir[key].entry_pos), LAMBDA entry :
                  IF entry.tag # "ok"
                  THEN [tag |-> "Err", val |-> <<>>,
                        handle |-> [self EXCEPT !.files_pool = data_file.files_pool]]
                  ELSE [tag |-> "Ok", val |-> entry.entry.value,
                        handle |-> [self EXCEPT !.files_pool = data_file.files_pool]]))

\* the rotation that ends put: when the capacity is exceeded, the id is
\* advanced and the next working file is opened
Rotate(self, d, is_wf_capacity_exceeded) ==
    IF ~is_wf_capacity_exceeded
    THEN [tag |-> "Ok", handle |-> self, dir |-> d, synced |-> {}]
    ELSE With(WorkingFileOpen(d, unwrap_or_default(self.working_file_id) + 1),
              LAMBDA next_wf :
           IF next_wf.tag # "ok"
           THEN [tag |-> "Err",
                 handle |-> [self EXCEPT !.working_file_id =
                                <<unwrap_or_default(@) + 1>>],
                 dir |-> d, synced |-> {}]
           ELSE [tag |-> "Ok",
                 handle |-> [self EXCEPT !.working_file_id =
                                <<unwrap_or_default(@) + 1>>,
                             !.working_file = <<next_wf.file>>],
                 dir |-> next_wf.dir, synced |-> {}])

\* A faulty put, against which C1 is tested: the DirEntry records the size of
\* the working file after the append instead of the offset of the record.
AppendAndIndex_PositionAfter(self, d, wf, working_file_id, entry) ==
    With(append(wf, d, entry), LAMBDA app :
        Rotate([self EXCEPT
                   !.working_file = <<app.file>>,
                   !.working_file_id = working_file_id,
                   !.key_dir = MapInsert(@, entry.key,
                                  DirEntryNew(app.file.path, app.file.size_b,
                                              entry.timestamp))],
               app.dir,
               app.bytes_written + wf.size_b > self.options.max_data_size))

\* the append of put and the update of the key directory that follows it
AppendAndIndex(self, d, wf, working_file_id, entry) ==
    With(append(wf, d, entry), LAMBDA app :
        Rotate([self EXCEPT
                   !.working_file = <<app.file>>,
                   !.working_file_id = working_file_id,
                   !.key_dir = MapInsert(@, entry.key,
                                  DirEntryNew(app.file.path,
                                              app.file.size_b - app.bytes_written,
                                              entry.timestamp))],
               app.dir,
               app.bytes_written + wf.size_b > self.options.max_data_size))

\* Bitcask::put.  The result: tag ("Ok", "Err", "Panic"), the handle and the
\* directory afterwards, and the files the call has synced to stable storage
\* (put reads no option but max_data_size and syncs none).
put(self, d, key, value, timestamp) ==
    IF self.working_file # <<>>
    THEN AppendAndIndex(self, d, self.working_file[1], self.working_file_id,
                        EntryNew(key, value, timestamp))
    ELSE With(WorkingFileOpen(d, 0), LAMBDA wf :
           IF wf.tag # "ok"
           THEN [tag |-> "Panic", handle |-> self, dir |-> d, synced |-> {}]
           ELSE AppendAndIndex(self, wf.dir, wf.file, <<0>>,
                               EntryNew(key, value, timestamp)))

\* WorkingFile::append when a write fails with an I/O error after n bytes of
\* the record have reached the file: the error is returned before size_b is
\* updated
append_io_error(wf, d, entry, n) ==
    [tag |-> "Err",
     dir |-> [d EXCEPT ![wf.path] = WriteAt(@, Len(@), SubSeq(Encode(entry), 1, n))],
     file |-> wf]

\* A faulty put, against which C20 is tested: the key directory is updated
\* before the result of the append is looked at.
AppendFailed_IndexFirst(self, d, wf, working_file_id, entry, n) ==
    With(append_io_error(wf, d, entry, n), LAMBDA app :
        [tag |-> app.tag,
         handle |-> [self EXCEPT
                        !.working_file = <<app.file>>,
                        !.working_file_id = working_file_id,
                        !.key_dir = MapInsert(@, entry.key,
                                       DirEntryNew(app.file.path, wf.size_b,
                                                   entry.timestamp))],
         dir |-> app.dir, synced |-> {}])

\* the append of put when it fails: `?` returns the error at once, before the
\* key directory is touched
AppendFailed(self, d, wf, working_file_id, entry, n) ==
    With(append_io_error(wf, d, entry, n), LAMBDA app :
        [tag |-> app.tag,
         handle |-> [self EXCEPT
                        !.working_file = <<app.file>>,
                        !.working_file_id = working_file_id],
         dir |-> app.dir, synced |-> {}])

\* Bitcask::put when the append fails with an I/O error after n bytes
put_io_error(self, d, key, value, timestamp, n) ==
    IF self.working_file # <<>>
    THEN AppendFailed(self, d, self.working_file[1], self.working_file_id,
                      EntryNew(key, value, timestamp), n)
    ELSE With(WorkingFileOpen(d, 0), LAMBDA wf :
           IF wf.tag # "ok"
           THEN [tag |-> "Panic", handle |-> self, dir |-> d, synced |-> {}]
           ELSE AppendFailed(self, wf.dir, wf.file, <<0>>,
                             EntryNew(key, value, timestamp), n))

\* the rotation that ends put when WorkingFile::open fails with an I/O error:
\* the id was advanced before the open, and `?` returns the error
RotateOpenFails(self, d, is_wf_capacity_exceeded) ==
    IF ~is_wf_capacity_exceeded
    THEN [tag |-> "Ok", handle |-> self, dir |-> d, synced |-> {}]
    ELSE [tag |-> "Err",
          handle |-> [self EXCEPT !.working_file_id =
                         <<unwrap_or_default(@) + 1>>],
          dir |-> d, synced |-> {}]

\* the append of put and the update of the key directory, followed by a
\* rotation whose open fails
AppendAndIndexOpenFails(self, d, wf, working_file_id, entry) ==
    With(append(wf, d, entry), LAMBDA app :
        RotateOpenFails([self EXCEPT
                            !.working_file = <<app.file>>,
                            !.working_file_id = working_file_id,
                            !.key_dir = MapInsert(@, entry.key,
                                           DirEntryNew(app.file.path,
                                                       app.file.size_b - app.bytes_written,
                                                       entry.timestamp))],
                        app.dir,
                        app.bytes_written + wf.size_b > self.options.max_data_size))

\* Bitcask::put when the open of the next working file fails with an I/O error
put_open_io_error(self, d, key, value, timestamp) ==
    IF self.working_file # <<>>
    THEN AppendAndIndexOpenFails(self, d, self.working_file[1], self.working_file_id,
                                 EntryNew(key, value, timestamp))
    ELSE With(WorkingFileOpen(d, 0), LAMBDA wf :
           IF wf.tag # "ok"
           THEN [tag |-> "Panic", handle |-> self, dir |-> d, synced |-> {}]
           ELSE AppendAndIndexOpenFails(self, wf.dir, wf.file, <<0>>,
                                        EntryNew(key, value, timestamp)))

\* A faulty delete, against which C2 is tested: the record is rewritten as
\* deleted but the key stays in the key directory.
delete_KeepsDirEntry(self, d, key) ==
    IF key \notin DOMAIN self.key_dir
    THEN [tag |-> "NotFound", handle |-> self, dir |-> d]
    ELSE With(get_file_containing_key(self, d, self.key_dir[key].file_name),
              LAMBDA data_file :
           IF data_file.tag # "ok"
           THEN [tag |-> data_file.tag, handle |-> self, dir |-> d]
           ELSE With(Decode(d[self.key_dir[key].file_name],
                            self.key_dir[key].entry_pos), LAMBDA entry :
                  IF entry.tag # "ok"
                  THEN [tag |-> "Err",
                        handle |-> [self EXCEPT !.files_pool = data_file.files_pool],
                        dir |-> d]
                  ELSE [tag |-> "Ok",
                        handle |-> [self EXCEPT !.files_pool = data_file.files_pool],
                        dir |-> [d EXCEPT ![self.key_dir[key].file_name] =
                                    WriteAt(@, self.key_dir[key].entry_pos,
                                            Encode(mark_deleted(entry.entry)))]]))

\* A faulty delete, against which C10 is tested: deleting a key without
\* DirEntry succeeds silently.
delete_AbsentSucceeds(self, d, key) ==
    IF key \notin DOMAIN self.key_dir
    THEN [tag |-> "Ok", handle |-> self, dir |-> d]
    ELSE With(get_file_containing_key(self, d, self.key_dir[key].file_name),
              LAMBDA data_file :
           IF data_file.tag # "ok"
           THEN [tag |-> data_file.tag, handle |-> self, dir |-> d]
           ELSE With(Decode(d[self.key_dir[key].file_name],
                            self.key_dir[key].entry_pos), LAMBDA entry :
                  IF entry.tag # "ok"
                  THEN [tag |-> "Err",
                        handle |-> [self EXCEPT !.files_pool = data_file.files_pool],
                        dir |-> d]
                  ELSE [tag |-> "Ok",
                        handle |-> [self EXCEPT
                                       !.files_pool = data_file.files_pool,
                                       !.key_dir = MapRemove(@, key)],
                        dir |-> [d EXCEPT ![self.key_dir[key].file_name] =
                                    WriteAt(@, self.key_dir[key].entry_pos,
                                            Encode(mark_deleted(entry.entry)))]]))

\* Bitcask::delete.  The result: tag ("Ok", "NotFound", "Err", "Panic"), the
\* handle and the directory afterwards.
delete(self, d, key) ==
    IF key \notin DOMAIN self.key_dir
    THEN [tag |-> "NotFound", handle |-> self, dir |-> d]
    ELSE With(get_file_containing_key(self, d, self.key_dir[key].file_name),
              LAMBDA data_file :
           IF data_file.tag # "ok"
           THEN [tag |-> data_file.tag, handle |-> self, dir |-> d]
           ELSE With(Decode(d[self.key_dir[key].file_name],
                            self.key_dir[key].entry_pos), LAMBDA entry :
                  IF entry.tag # "ok"
                  THEN [tag |-> "Err",
                        handle |-> [self EXCEPT !.files_pool = data_file.files_pool],
                        dir |-> d]
                  ELSE [tag |-> "Ok",
                        handle |-> [self EXCEPT
                                       !.files_pool = data_file.files_pool,
                                       !.key_dir = MapRemove(@, key)],
                        dir |-> [d EXCEPT ![self.key_dir[key].file_name] =
                                    WriteAt(@, self.key_dir[key].entry_pos,
                                            Encode(mark_deleted(entry.entry)))]]))

\* Bitcask::list_keys
list_keys(self) == DOMAIN self.key_dir

\* Bitcask::merge, Bitcask::sync and Bitcask::close are todo!(): each call
\* panics, whatever the handle
merge(self, d) == [tag |-> "Panic", handle |-> self, dir |-> d]

sync(self, d) == [tag |-> "Panic", handle |-> self, dir |-> d, synced |-> {}]

close(self, d) == [tag |-> "Panic", handle |-> self, dir |-> d]

(***************************************************************************)
(* The state: the directory and the handles, and a record of what the      *)
(* callers did (latest, snapshot, written), which the program never reads. *)
(***************************************************************************)
VARIABLES
    dir,        \* the segment files: name -> bytes
    lock_file,  \* whether bitcask.lock exists in the directory
    handle,     \* the Bitcask struct of each process
    latest,     \* per handle and key, the handle's last put or delete of it
    snapshot,   \* per handle, the value of each key indexed when it was opened
    written,    \* per file, place and length of each record appended in full
    puts,       \* appends started so far
    bit_flips   \* bytes of the directory damaged at rest so far

vars == <<dir, lock_file, handle, latest, snapshot, written, puts, bit_flips>>

Unknown == [st |-> "unknown", val |-> <<>>]
Deleted == [st |-> "deleted", val |-> <<>>]
Written(value) == [st |-> "put", val |-> value]
NothingKnown == [k \in Keys |-> Unknown]

\* the lock is held by the live process whose handle owns the locked file
Locked == \E g \in Handles : handle[g]._lock

\* a panic unwinds the calling process: its handle is gone
AfterCall(tag, after) == IF tag = "Panic" THEN NoHandle ELSE after

\* the file a put of this handle appends to
PutTarget(self) ==
    IF self.working_file = <<>> THEN FileName(0) ELSE self.working_file[1].path

\* the values a handle's key directory leads to
ValuesIndexed(self, d) ==
    [k \in DOMAIN self.key_dir |->
        Decode(d[self.key_dir[k].file_name], self.key_dir[k].entry_pos).entry.value]

\* `written` after the files of d1 exist and `rec` was appended to `target`
Record(d1, target, rec) ==
    [n \in DOMAIN d1 |->
        (IF n \in DOMAIN written THEN written[n] ELSE <<>>)
        \o (IF n = target THEN rec ELSE <<>>)]

Init ==
    /\ dir = <<>>
    /\ lock_file = FALSE
    /\ handle = [h \in Handles |-> NoHandle]
    /\ latest = [h \in Handles |-> NothingKnown]
    /\ snapshot = [h \in Handles |-> <<>>]
    /\ written = <<>>
    /\ puts = 0
    /\ bit_flips = 0

Open(h, options) ==
    /\ ~handle[h].open
    /\ \E r \in {open(dir, lock_file, Locked, options)} :
        /\ Cardinality(DOMAIN r.dir) <= MaxFiles
        /\ handle' = [handle EXCEPT ![h] = r.handle]
        /\ dir' = r.dir
        /\ lock_file' = r.lock_file
        /\ latest' = [latest EXCEPT ![h] = NothingKnown]
        /\ snapshot' = [snapshot EXCEPT ![h] = ValuesIndexed(r.handle, r.dir)]
        /\ written' = Record(r.dir, <<>>, <<>>)
        /\ UNCHANGED <<puts, bit_flips>>

OpenReadOnly(h) == Open(h, OptionsDefault)

OpenReadWrite(h) == Open(h, OptionsReadWrite)

OpenSyncOnPut(h) == Open(h, OptionsSyncOnPut)

Put(h, key, value, timestamp) ==
    /\ handle[h].open
    /\ puts < MaxPuts
    /\ \E r \in {put(handle[h], dir, key, value, timestamp)} :
        /\ Cardinality(DOMAIN r.dir) <= MaxFiles
        /\ handle' = [handle EXCEPT ![h] = AfterCall(r.tag, r.handle)]
        /\ dir' = r.dir
        /\ latest' = [latest EXCEPT ![h] =
                         IF r.tag = "Panic" THEN NothingKnown
                         ELSE [@ EXCEPT ![key] = Written(value)]]
        /\ snapshot' = [snapshot EXCEPT ![h] = IF r.tag = "Panic" THEN <<>> ELSE @]
        /\ written' =
              IF r.tag = "Panic" THEN written
              ELSE Record(r.dir, PutTarget(handle[h]),
                          <<[pos |-> Len(dir'[PutTarget(handle[h])])
                                       - Len(Encode(EntryNew(key, value, timestamp))),
                             len |-> Len(Encode(EntryNew(key, value, timestamp)))]>>)
        /\ puts' = IF r.tag = "Panic" THEN puts ELSE puts + 1
        /\ UNCHANGED <<lock_file, bit_flips>>

Get(h, key) ==
    /\ handle[h].open
    /\ \E r \in {get(handle[h], dir, key)} :
        /\ handle' = [handle EXCEPT ![h] = AfterCall(r.tag, r.handle)]
        /\ latest' = [latest EXCEPT ![h] = IF r.tag = "Panic" THEN NothingKnown ELSE @]
        /\ snapshot' = [snapshot EXCEPT ![h] = IF r.tag = "Panic" THEN <<>> ELSE @]
        /\ UNCHANGED <<dir, lock_file, written, puts, bit_flips>>

Delete(h, key) ==
    /\ handle[h].open
    /\ \E r \in {delete(handle[h], dir, key)} :
        /\ handle' = [handle EXCEPT ![h] = AfterCall(r.tag, r.handle)]
        /\ dir' = r.dir
        /\ latest' = [latest EXCEPT ![h] =
                         IF r.tag = "Panic" THEN NothingKnown
                         ELSE IF r.tag = "Ok" THEN [@ EXCEPT ![key] = Deleted]
                         ELSE @]
        /\ snapshot' = [snapshot EXCEPT ![h] = IF r.tag = "Panic" THEN <<>> ELSE @]
        /\ UNCHANGED <<lock_file, written, puts, bit_flips>>

ListKeys(h) ==
    /\ handle[h].open
    /\ UNCHANGED vars

Merge(h) ==
    /\ handle[h].open
    /\ \E r \in {merge(handle[h], dir)} :
        /\ handle' = [handle EXCEPT ![h] = AfterCall(r.tag, r.handle)]
        /\ dir' = r.dir
        /\ latest' = [latest EXCEPT ![h] = IF r.tag = "Panic" THEN NothingKnown ELSE @]
        /\ snapshot' = [snapshot EXCEPT ![h] = IF r.tag = "Panic" THEN <<>> ELSE @]
        /\ UNCHANGED <<lock_file, written, puts, bit_flips>>

Sync(h) ==
    /\ handle[h].open
    /\ \E r \in {sync(handle[h], dir)} :
        /\ handle' = [handle EXCEPT ![h] = AfterCall(r.tag, r.handle)]
        /\ dir' = r.dir
        /\ latest' = [latest EXCEPT ![h] = IF r.tag = "Panic" THEN NothingKnown ELSE @]
        /\ snapshot' = [snapshot EXCEPT ![h] = IF r.tag = "Panic" THEN <<>> ELSE @]
        /\ UNCHANGED <<lock_file, written, puts, bit_flips>>

Close(h) ==
    /\ handle[h].open
    /\ \E r \in {close(handle[h], dir)} :
        /\ handle' = [handle EXCEPT ![h] = AfterCall(r.tag, r.handle)]
        /\ dir' = r.dir
        /\ latest' = [latest EXCEPT ![h] = IF r.tag = "Panic" THEN NothingKnown ELSE @]
        /\ snapshot' = [snapshot EXCEPT ![h] = IF r.tag = "Panic" THEN <<>> ELSE @]
        /\ UNCHANGED <<lock_file, written, puts, bit_flips>>

\* the process exits or crashes between two calls: the handle is dropped and
\* its files, the lock file among them, are closed
Drop(h) ==
    /\ handle[h].open
    /\ handle' = [handle EXCEPT ![h] = NoHandle]
    /\ latest' = [latest EXCEPT ![h] = NothingKnown]
    /\ snapshot' = [snapshot EXCEPT ![h] = <<>>]
    /\ UNCHANGED <<dir, lock_file, written, puts, bit_flips>>

\* the process crashes inside WorkingFile::append of a put, when the first n
\* bytes of the record, a proper prefix of it, have reached the file
CrashMidPut(h, key, value, timestamp, n) ==
    /\ handle[h].open
    /\ handle[h].working_file # <<>>
    /\ puts < MaxPuts
    /\ n < Len(Encode(EntryNew(key, value, timestamp)))
    /\ dir' = [dir EXCEPT ![handle[h].working_file[1].path] =
                  WriteAt(@, Len(@),
                          SubSeq(Encode(EntryNew(key, value, timestamp)), 1, n))]
    /\ handle' = [handle EXCEPT ![h] = NoHandle]
    /\ latest' = [latest EXCEPT ![h] = NothingKnown]
    /\ snapshot' = [snapshot EXCEPT ![h] = <<>>]
    /\ puts' = puts + 1
    /\ UNCHANGED <<lock_file, written, bit_flips>>

\* a put whose append fails with an I/O error after n bytes
PutFails(h, key, value, timestamp, n) ==
    /\ handle[h].open
    /\ puts < MaxPuts
    /\ n < Len(Encode(EntryNew(key, value, timestamp)))
    /\ \E r \in {put_io_error(handle[h], dir, key, value, timestamp, n)} :
        /\ Cardinality(DOMAIN r.dir) <= MaxFiles
        /\ handle' = [handle EXCEPT ![h] = AfterCall(r.tag, r.handle)]
        /\ dir' = r.dir
        /\ latest' = [latest EXCEPT ![h] = IF r.tag = "Panic" THEN NothingKnown ELSE @]
        /\ snapshot' = [snapshot EXCEPT ![h] = IF r.tag = "Panic" THEN <<>> ELSE @]
        /\ written' = Record(r.dir, <<>>, <<>>)
        /\ puts' = IF r.tag = "Panic" THEN puts ELSE puts + 1
        /\ UNCHANGED <<lock_file, bit_flips>>

\* a put that exceeds the capacity and whose open of the next working file
\* fails with an I/O error
PutOpenFails(h, key, value, timestamp) ==
    /\ handle[h].open
    /\ puts < MaxPuts
    /\ \E r \in {put_open_io_error(handle[h], dir, key, value, timestamp)} :
        /\ r.tag = "Err"
        /\ Cardinality(DOMAIN r.dir) <= MaxFiles
        /\ handle' = [handle EXCEPT ![h] = r.handle]
        /\ dir' = r.dir
        /\ latest' = [latest EXCEPT ![h][key] = Written(value)]
        /\ written' = Record(r.dir, PutTarget(handle[h]),
                             <<[pos |-> Len(dir'[PutTarget(handle[h])])
                                          - Len(Encode(EntryNew(key, value, timestamp))),
                                len |-> Len(Encode(EntryNew(key, value, timestamp)))]>>)
        /\ puts' = puts + 1
        /\ UNCHANGED <<lock_file, snapshot, bit_flips>>

\* a bit of the value of a record is flipped on disk while no process has the
\* directory open; the value is the bytes before the last byte of the record
Corrupt(name, i, off) ==
    /\ bit_flips < MaxFlips
    /\ \A h \in Handles : ~handle[h].open
    /\ off < written[name][i].pos + written[name][i].len - 1
    /\ off >= written[name][i].pos + written[name][i].len - 2
    /\ dir' = [dir EXCEPT ![name][off + 1] = IF @ % 2 = 0 THEN @ + 1 ELSE @ - 1]
    /\ bit_flips' = bit_flips + 1
    /\ UNCHANGED <<lock_file, handle, latest, snapshot, written, puts>>

Next ==
    \E h \in Handles :
        \/ OpenReadOnly(h)
        \/ OpenReadWrite(h)
        \/ \E key \in Keys, value \in Values, timestamp \in Timestamps :
               Put(h, key, value, timestamp)
        \/ \E key \in Keys : Get(h, key)
        \/ \E key \in Keys : Delete(h, key)
        \/ ListKeys(h)
        \/ Merge(h)
        \/ Sync(h)
        \/ Close(h)
        \/ Drop(h)

Spec == Init /\ [][Next]_vars

\* the behaviours of one process that opens, reads, writes and reopens the
\* directory, and may crash in the middle of an append
NextCrash ==
    \E h \in {1} :
        \/ OpenReadOnly(h)
        \/ OpenReadWrite(h)
        \/ \E key \in Keys, value \in Values, timestamp \in Timestamps :
               Put(h, key, value, timestamp)
        \/ \E key \in Keys : Get(h, key)
        \/ \E key \in Keys : Delete(h, key)
        \/ ListKeys(h)
        \/ Merge(h)
        \/ Sync(h)
        \/ Close(h)
        \/ Drop(h)
        \/ \E key \in Keys, value \in Values, timestamp \in Timestamps :
              \E n \in 1..(Len(Encode(EntryNew(key, value, timestamp))) - 1) :
                 CrashMidPut(h, key, value, timestamp, n)

SpecCrash == Init /\ [][NextCrash]_vars

\* the behaviours in which the directory may also be damaged at rest
NextCorrupt ==
    \/ Next
    \/ \E name \in DOMAIN dir :
          \E i \in DOMAIN written[name], off \in 0..(Len(dir[name]) - 1) :
             Corrupt(name, i, off)

SpecCorrupt == Init /\ [][NextCorrupt]_vars

\* the behaviours of one process on a directory it did not create: any
\* directory of at most MaxFiles segment files, with any ids below MaxFiles,
\* each file empty or holding one record
FoundContents == {<<>>, Encode(EntryNew(<<107>>, <<97>>, 1))}

FoundDirs ==
    UNION {[{FileName(id) : id \in ids} -> FoundContents] :
              ids \in SUBSET (0..(MaxFiles - 1))}

InitFound ==
    /\ dir \in FoundDirs
    /\ lock_file = FALSE
    /\ handle = [h \in Handles |-> NoHandle]
    /\ latest = [h \in Handles |-> NothingKnown]
    /\ snapshot = [h \in Handles |-> <<>>]
    /\ written = [n \in DOMAIN dir |->
                     IF dir[n] = <<>> THEN <<>>
                     ELSE <<[pos |-> 0, len |-> Len(dir[n])]>>]
    /\ puts = 0
    /\ bit_flips = 0

NextFound ==
    \E h \in {1} :
        \/ OpenReadOnly(h)
        \/ OpenReadWrite(h)
        \/ \E key \in Keys, value \in Values, timestamp \in Timestamps :
               Put(h, key, value, timestamp)
        \/ \E key \in Keys : Get(h, key)
        \/ \E key \in Keys : Delete(h, key)
        \/ ListKeys(h)
        \/ Merge(h)
        \/ Sync(h)
        \/ Close(h)
        \/ Drop(h)

SpecFound == InitFound /\ [][NextFound]_vars

\* the behaviours of one process whose appends, and whose opens of the next
\* working file, may fail with an I/O error
NextIoError ==
    \E h \in {1} :
        \/ OpenReadOnly(h)
        \/ OpenReadWrite(h)
        \/ \E key \in Keys, value \in Values, timestamp \in Timestamps :
               Put(h, key, value, timestamp)
        \/ \E key \in Keys : Get(h, key)
        \/ \E key \in Keys : Delete(h, key)
        \/ ListKeys(h)
        \/ Merge(h)
        \/ Sync(h)
        \/ Close(h)
        \/ Drop(h)
        \/ \E key \in Keys, value \in Values, timestamp \in Timestamps :
              \E n \in FaultPoints(EntryNew(key, value, timestamp)) :
                 PutFails(h, key, value, timestamp, n)
        \/ \E key \in Keys, value \in Values, timestamp \in Timestamps :
               PutOpenFails(h, key, value, timestamp)

SpecIoError == Init /\ [][NextIoError]_vars

\* the behaviours of one process that may also open with sync_on_put
NextSync ==
    \E h \in {1} :
        \/ OpenReadOnly(h)
        \/ OpenReadWrite(h)
        \/ OpenSyncOnPut(h)
        \/ \E key \in Keys, value \in Values, timestamp \in Timestamps :
               Put(h, key, value, timestamp)
        \/ \E key \in Keys : Get(h, key)
        \/ \E key \in Keys : Delete(h, key)
        \/ ListKeys(h)
        \/ Merge(h)
        \/ Sync(h)
        \/ Close(h)
        \/ Drop(h)

SpecSync == Init /\ [][NextSync]_vars

\* the behaviours of one process on a directory whose segments 2 and 10 hold
\* any records of ReplayRecords: up to two in segment 2, up to one in
\* segment 10
ReplayRecords ==
    {EntryNew(<<107>>, <<97>>, 2),
     EntryNew(<<107>>, <<98, 99>>, 1),
     mark_deleted(EntryNew(<<107>>, <<97>>, 1)),
     EntryNew(<<107, 50>>, <<97>>, 1)}

RecordSeqs(n) == UNION {[1..m -> ReplayRecords] : m \in 0..n}

RECURSIVE EncodeAll(_)
EncodeAll(recs) ==
    IF recs = <<>> THEN <<>> ELSE Encode(Head(recs)) \o EncodeAll(Tail(recs))

\* where each of the records of a file starts, and its length
Places(recs) ==
    [i \in DOMAIN recs |->
        [pos |-> Len(EncodeAll(SubSeq(recs, 1, i - 1))),
         len |-> Len(Encode(recs[i]))]]

InitReplay ==
    \E older \in RecordSeqs(2), newer \in RecordSeqs(1) :
        /\ dir = (FileName(2) :> EncodeAll(older)) @@ (FileName(10) :> EncodeAll(newer))
        /\ written = (FileName(2) :> Places(older)) @@ (FileName(10) :> Places(newer))
        /\ lock_file = FALSE
        /\ handle = [h \in Handles |-> NoHandle]
        /\ latest = [h \in Handles |-> NothingKnown]
        /\ snapshot = [h \in Handles |-> <<>>]
        /\ puts = 0
        /\ bit_flips = 0

SpecReplay == InitReplay /\ [][NextFound]_vars

(***************************************************************************)
(* The claims.                                                             *)
(***************************************************************************)
ReadWriteHandles == {h \in Handles : handle[h].open /\ handle[h].options.read_write}
ReadOnlyHandles == {h \in Handles : handle[h].open /\ ~handle[h].options.read_write}

\* the record of file `name` that starts at offset `pos`
RecordAt(name, pos) == Decode(dir[name], pos).entry

\* C1: on a read_write handle, get(k) returns exactly the value of the
\* handle's most recent put(k, v) that no delete(k) followed, whether the
\* record lives in the active segment or in a sealed one.
C1_GetReturnsLatestPut ==
    \A h \in ReadWriteHandles, k \in Keys :
        latest[h][k].st = "put" =>
            /\ get(handle[h], dir, k).tag = "Ok"
            /\ get(handle[h], dir, k).val = latest[h][k].val

\* a read_write handle whose last put of k overwrote an earlier value of k, the
\* record now lying in a sealed segment
C1_Witness ==
    \E h \in ReadWriteHandles, k \in Keys :
        /\ latest[h][k].st = "put"
        /\ handle[h].key_dir[k].file_name # handle[h].working_file[1].path
        /\ handle[h].key_dir[k].entry_pos > 0
        /\ RecordAt(handle[h].key_dir[k].file_name, 0).key = k
        /\ RecordAt(handle[h].key_dir[k].file_name, 0).value # latest[h][k].val

\* C2: after delete(k) returned successfully on a handle, and until a later
\* put(k, ..), get(k) fails with NotFound and k is not among list_keys().
C2_DeletedKeyIsGone ==
    \A h \in Handles, k \in Keys :
        (handle[h].open /\ latest[h][k].st = "deleted") =>
            /\ get(handle[h], dir, k).tag = "NotFound"
            /\ k \notin list_keys(handle[h])

\* a handle deleted k, whose record lay in a sealed segment, and still holds
\* another key
C2_Witness ==
    \E h \in Handles, k \in Keys :
        /\ handle[h].open
        /\ latest[h][k].st = "deleted"
        /\ list_keys(handle[h]) # {}
        /\ \E name \in DOMAIN written \ {handle[h].working_file[1].path} :
              \E i \in DOMAIN written[name] :
                 /\ RecordAt(name, written[name][i].pos).key = k
                 /\ RecordAt(name, written[name][i].pos).is_deleted

\* C3: the key directory rebuilt from the directory equals the one a
\* read_write handle holds in memory: the same keys, each at the same segment
\* and offset.
C3_RebuildEqualsMemory ==
    \A h \in ReadWriteHandles :
        /\ build_key_dir_map_and_files_pool(dir).tag = "ok"
        /\ build_key_dir_map_and_files_pool(dir).key_dir = handle[h].key_dir

\* the key directory the replay rules give for the records that were appended
\* in full: files by ascending id, records by ascending offset
RECURSIVE ExpectedFile(_, _, _)
ExpectedFile(name, recs, key_dir) ==
    IF recs = <<>> THEN key_dir
    ELSE ExpectedFile(name, Tail(recs),
             IF RecordAt(name, Head(recs).pos).is_deleted
             THEN MapRemove(key_dir, RecordAt(name, Head(recs).pos).key)
             ELSE MapInsert(key_dir, RecordAt(name, Head(recs).pos).key,
                      DirEntryNew(name, Head(recs).pos,
                                  RecordAt(name, Head(recs).pos).timestamp)))

RECURSIVE ExpectedKeyDir(_, _)
ExpectedKeyDir(id, key_dir) ==
    IF id > MaxFiles + 1 THEN key_dir
    ELSE ExpectedKeyDir(id + 1,
             IF FileName(id) \in DOMAIN written
             THEN ExpectedFile(FileName(id), written[FileName(id)], key_dir)
             ELSE key_dir)

\* the length of the part of a file that holds records appended in full
CompleteLen(name) ==
    IF written[name] = <<>> THEN 0
    ELSE written[name][Len(written[name])].pos + written[name][Len(written[name])].len

TornFiles == {name \in DOMAIN dir : Len(dir[name]) > CompleteLen(name)}

\* C4: when a crash left the last record of a segment truncated, open succeeds
\* and the key directory it builds is the one of the records written in full;
\* no DirEntry points at or past the truncated tail.
C4_TruncatedTailIsEndOfLog ==
    TornFiles # {} =>
        LET r == open(dir, lock_file, Locked, OptionsDefault)
        IN  /\ r.tag = "Ok"
            /\ r.handle.key_dir = ExpectedKeyDir(0, <<>>)
            /\ \A k \in DOMAIN r.handle.key_dir :
                  r.handle.key_dir[k].entry_pos < CompleteLen(r.handle.key_dir[k].file_name)

\* a segment holds a record written in full and then a truncated one, and
\* the directory was opened again after the crash
C4_Witness ==
    \E name \in TornFiles, h \in Handles :
        /\ written[name] # <<>>
        /\ handle[h].open
        /\ DOMAIN handle[h].key_dir # {}
        /\ name \in handle[h].files_pool

\* some record written in full no longer matches its stored checksum
ChecksumMismatch ==
    \E name \in DOMAIN written :
        \E i \in DOMAIN written[name] :
            /\ Decode(dir[name], written[name][i].pos).tag = "ok"
            /\ RecordAt(name, written[name][i].pos).crc_checksum #
                  generate_checksum(RecordAt(name, written[name][i].pos).timestamp,
                                    RecordAt(name, written[name][i].pos).key,
                                    RecordAt(name, written[name][i].pos).value)

\* C5: when a fully-present record's stored checksum differs from the checksum
\* of its stored fields, open fails with an error; the record is not indexed.
C5_CorruptionFailsOpen ==
    ChecksumMismatch => open(dir, lock_file, Locked, OptionsDefault).tag = "Err"

\* C6: while a read_write handle is open, a second read_write open returns an
\* error to its caller (it does not abort the process) and creates no file.
C6_SecondWriterGetsError ==
    Locked =>
        /\ open(dir, lock_file, Locked, OptionsReadWrite).tag = "Err"
        /\ open(dir, lock_file, Locked, OptionsReadWrite).dir = dir

\* C7: at most one handle has an active segment, and that handle holds the
\* write lock.
C7_SingleWriter ==
    \A h \in Handles :
        handle[h].working_file # <<>> =>
            /\ handle[h]._lock
            /\ \A g \in Handles \ {h} : handle[g].working_file = <<>>

\* the call returned an error to its caller
ReturnedError(tag) == tag \in {"Err", "NotFound"}

\* C8: on a read-only handle put and delete return an error and leave the key
\* directory and the files of the directory unchanged.
C8_ReadOnlyHandleCannotWrite ==
    \A h \in ReadOnlyHandles, k \in Keys, v \in Values, t \in Timestamps :
        /\ ReturnedError(put(handle[h], dir, k, v, t).tag)
        /\ put(handle[h], dir, k, v, t).dir = dir
        /\ put(handle[h], dir, k, v, t).handle.key_dir = handle[h].key_dir
        /\ ReturnedError(delete(handle[h], dir, k).tag)
        /\ delete(handle[h], dir, k).dir = dir
        /\ delete(handle[h], dir, k).handle.key_dir = handle[h].key_dir

\* C9: a read-only handle (one that only reads) serves the snapshot taken when
\* it was opened: list_keys() is the key set of then, and get(k) returns the
\* value k had then.
C9_ReadOnlySnapshot ==
    \A h \in ReadOnlyHandles :
        handle[h].working_file = <<>> =>
            /\ list_keys(handle[h]) = DOMAIN snapshot[h]
            /\ \A k \in DOMAIN snapshot[h] :
                  /\ get(handle[h], dir, k).tag = "Ok"
                  /\ get(handle[h], dir, k).val = snapshot[h][k]

Writers == {h \in Handles : handle[h].open /\ handle[h].working_file # <<>>}

\* the segments no handle has as its active segment
Sealed == {name \in DOMAIN dir :
              \A h \in Writers : handle[h].working_file[1].path # name}

\* what put(key, value) does to the active segment wf of handle h: the record
\* is appended to it; when its tracked size then exceeds max_data_size it is
\* sealed and a new empty segment with the next id becomes active
RotationRule(h, wf, r, rec) ==
    /\ r.dir[wf.path] = dir[wf.path] \o rec
    /\ IF wf.size_b + Len(rec) > handle[h].options.max_data_size
       THEN /\ r.tag = "Ok"
            /\ FileName(ParseId(wf.path) + 1) \notin DOMAIN dir
            /\ r.handle.working_file =
                  <<[path |-> FileName(ParseId(wf.path) + 1), size_b |-> 0]>>
            /\ r.dir[FileName(ParseId(wf.path) + 1)] = <<>>
       ELSE /\ r.tag = "Ok"
            /\ r.handle.working_file =
                  <<[path |-> wf.path, size_b |-> wf.size_b + Len(rec)]>>
            /\ DOMAIN r.dir = DOMAIN dir

\* C11: a put appends to the active segment and rotates exactly when the
\* tracked size then exceeds max_data_size; so between calls an active segment
\* holds at most max_data_size bytes and a sealed segment exceeds
\* max_data_size by at most its last record.
C11_Rotation ==
    /\ \A h \in Writers :
          /\ handle[h].working_file[1].size_b <= handle[h].options.max_data_size
          /\ \A k \in Keys, v \in Values, t \in Timestamps :
                RotationRule(h, handle[h].working_file[1],
                             put(handle[h], dir, k, v, t),
                             Encode(EntryNew(k, v, t)))
    /\ \A name \in Sealed :
          written[name] # <<>> =>
              CompleteLen(name) - written[name][Len(written[name])].len <= MaxDataSize

\* the id WorkingFile::get_working_file_id gives for the directory as it is
NextId == Cardinality(DOMAIN dir)

C13_MergePreserves ==
    \A h \in ReadWriteHandles :
        LET r == merge(handle[h], dir)
        IN  /\ r.tag = "Ok"
            /\ list_keys(r.handle) = list_keys(handle[h])
            /\ ValuesIndexed(r.handle, r.dir) = ValuesIndexed(handle[h], dir)
            /\ \A name \in DOMAIN r.dir :
                  \/ r.handle.working_file[1].path = name
                  \/ \E k \in DOMAIN r.handle.key_dir :
                        r.handle.key_dir[k].file_name = name

\* C14: close() on a read_write handle returns successfully and releases the
\* write lock, and the closed handle refuses every later call with an error.
C14_CloseInvalidates ==
    \A h \in ReadWriteHandles :
        LET r == close(handle[h], dir)
        IN  /\ r.tag = "Ok"
            /\ ~r.handle._lock
            /\ \A k \in Keys, v \in Values, t \in Timestamps :
                  /\ get(r.handle, r.dir, k).tag = "Err"
                  /\ put(r.handle, r.dir, k, v, t).tag = "Err"
                  /\ delete(r.handle, r.dir, k).tag = "Err"

\* C15: with sync_on_put a put syncs the active segment, the one it appended
\* to, before it returns; without sync_on_put it syncs nothing.
C15_SyncOnPut ==
    \A h \in Writers, k \in Keys, v \in Values, t \in Timestamps :
        LET r == put(handle[h], dir, k, v, t)
        IN  IF handle[h].options.sync_on_put
            THEN r.tag = "Ok" => handle[h].working_file[1].path \in r.synced
            ELSE r.synced = {}

\* the options of an open that does not ask for read_write: none, or options
\* with read_write false
ReadOnlyOptions ==
    {<<>>, <<OptionsDefault>>, <<[OptionsDefault EXCEPT !.sync_on_put = TRUE]>>}

\* C16: an open with no options or with read_write false leaves the directory
\* unchanged: no segment file and no bitcask.lock is created, no lock is
\* taken, and the handle has no active segment.
C16_ReadOnlyOpenIsPassive ==
    \A opt \in ReadOnlyOptions :
        LET r == open(dir, lock_file, Locked, unwrap_or(opt, OptionsDefault))
        IN  /\ r.dir = dir
            /\ r.lock_file = lock_file
            /\ r.tag = "Ok"
            /\ ~r.handle._lock
            /\ r.handle.working_file = <<>>
            /\ r.handle.working_file_id = <<>>
            /\ ~r.handle.options.read_write

\* a handle opened read-only, with keys, on a directory that has segment
\* files and no bitcask.lock
C16_Witness ==
    \E h \in ReadOnlyHandles :
        /\ handle[h].working_file = <<>>
        /\ DOMAIN handle[h].key_dir # {}
        /\ ~lock_file

\* the record of file `name` at offset `pos` was appended no later than the
\* one the DirEntry e addresses: files by id, records by offset
NotAfter(name, pos, e) ==
    \/ ParseId(name) < ParseId(e.file_name)
    \/ ParseId(name) = ParseId(e.file_name) /\ pos <= e.entry_pos

\* the DirEntry e of key k addresses the start of a complete record of an
\* existing segment, with key k, not deleted, the last one appended for k
AddressesLatestRecord(k, e) ==
    /\ e.file_name \in DOMAIN dir
    /\ \E i \in DOMAIN written[e.file_name] :
          written[e.file_name][i].pos = e.entry_pos
    /\ Decode(dir[e.file_name], e.entry_pos).tag = "ok"
    /\ RecordAt(e.file_name, e.entry_pos).key = k
    /\ ~RecordAt(e.file_name, e.entry_pos).is_deleted
    /\ \A name \in DOMAIN written :
          \A j \in DOMAIN written[name] :
             RecordAt(name, written[name][j].pos).key = k =>
                 NotAfter(name, written[name][j].pos, e)

\* C17: in every state of a read_write handle, every DirEntry addresses the
\* start of a complete, not deleted record of its key in an existing segment,
\* the last one appended for the key; a successful delete removes the DirEntry
\* of the record it marks deleted.
C17_KeyDirInvariant ==
    \A h \in ReadWriteHandles :
        \A k \in DOMAIN handle[h].key_dir :
            /\ AddressesLatestRecord(k, handle[h].key_dir[k])
            /\ LET r == delete(handle[h], dir, k)
               IN  /\ r.tag = "Ok"
                   /\ k \notin DOMAIN r.handle.key_dir
                   /\ Decode(r.dir[handle[h].key_dir[k].file_name],
                             handle[h].key_dir[k].entry_pos).entry.is_deleted

\* the record of key k that is last in replay order (segments by ascending
\* numeric id, records by ascending offset) starts at `pos` in file `name`
LastRecordOf(k, name, pos) ==
    /\ RecordAt(name, pos).key = k
    /\ \A other \in DOMAIN written :
          \A j \in DOMAIN written[other] :
             RecordAt(other, written[other][j].pos).key = k =>
                 NotAfter(other, written[other][j].pos,
                          [file_name |-> name, entry_pos |-> pos])

\* C18: recovery lets the last record of a key in replay order decide: a
\* record that is not deleted yields the DirEntry of its segment and offset, a
\* deleted one leaves the key absent; timestamps play no part.
C18_ReplayOrder ==
    LET r == build_key_dir_map_and_files_pool(dir)
    IN  /\ r.tag = "ok"
        /\ \A k \in Keys :
              /\ k \in DOMAIN r.key_dir <=>
                    \E name \in DOMAIN written :
                       \E j \in DOMAIN written[name] :
                          /\ LastRecordOf(k, name, written[name][j].pos)
                          /\ ~RecordAt(name, written[name][j].pos).is_deleted
              /\ k \in DOMAIN r.key_dir =>
                    /\ LastRecordOf(k, r.key_dir[k].file_name, r.key_dir[k].entry_pos)
                    /\ r.key_dir[k].timestamp =
                          RecordAt(r.key_dir[k].file_name,
                                   r.key_dir[k].entry_pos).timestamp

\* a handle opened on a directory where segment 2 holds a record of a key with
\* timestamp 2 and segment 10 a record of the same key with timestamp 1: the
\* handle indexes the one of segment 10
C18_Witness ==
    \E h \in Handles, k \in Keys :
        /\ handle[h].open
        /\ k \in DOMAIN handle[h].key_dir
        /\ handle[h].key_dir[k].file_name = FileName(10)
        /\ handle[h].key_dir[k].timestamp = 1
        /\ \E j \in DOMAIN written[FileName(2)] :
              /\ RecordAt(FileName(2), written[FileName(2)][j].pos).key = k
              /\ RecordAt(FileName(2), written[FileName(2)][j].pos).timestamp = 2
              /\ ~RecordAt(FileName(2), written[FileName(2)][j].pos).is_deleted

\* file `after` is file `before` with bytes added at its end, if any
Extends(after, before) ==
    /\ Len(after) >= Len(before)
    /\ SubSeq(after, 1, Len(before)) = before

\* the byte that holds the deleted flag of the record at offset pos: its last
FlagByte(bytes, pos) == Decode(bytes, pos).next

C20_IndexAfterAppend ==
    \A h \in Writers, k \in Keys, v \in Values, t \in Timestamps :
        \A n \in FaultPoints(EntryNew(k, v, t)) :
            \A r \in {put_io_error(handle[h], dir, k, v, t, n)} :
                /\ r.tag = "Err"
                /\ r.handle.key_dir = handle[h].key_dir

\* a handle that holds a key and whose active segment has bytes behind its
\* tracked size: an append to it has failed
C20_Witness ==
    \E h \in Writers :
        /\ DOMAIN handle[h].key_dir # {}
        /\ handle[h].working_file[1].size_b < Len(dir[handle[h].working_file[1].path])

\* the id in the name of the file a handle appends to
ActiveId(h) == ParseId(handle[h].working_file[1].path)

\* the active segment of a read_write handle is the newest segment, and the
\* handle's working_file_id is its id
NewestIsActive ==
    \A h \in ReadWriteHandles :
        /\ \A name \in DOMAIN dir \ {handle[h].working_file[1].path} :
               ParseId(name) < ActiveId(h)
        /\ handle[h].working_file_id = <<ActiveId(h)>>

\* a segment created by a step has an id above that of every segment that
\* existed before the step
CreatedInOrder ==
    \A new \in DOMAIN dir' \ DOMAIN dir :
        \A old \in DOMAIN dir : ParseId(old) < ParseId(new)

\* C21: in every state the active segment of a read_write handle has an id
\* above that of every other segment file and the handle's working_file_id is
\* the id of the file it appends to; the ids of the segments created strictly
\* increase in the order of creation.
C21_ActiveIsNewest == []NewestIsActive /\ [][CreatedInOrder]_vars

\* the path of the active segment of a handle, if it has one
ActivePath(self) ==
    IF self.working_file = <<>> THEN <<>> ELSE <<self.working_file[1].path>>

\* the bytes a call added to the files of the directory hold no record
NoRecordAdded(after) ==
    \A name \in DOMAIN after :
        Decode(after[name],
               IF name \in DOMAIN dir THEN Len(dir[name]) ELSE 0).tag # "ok"

\* a put of handle h with result r that returned an error changed nothing
ErrorChangesNothing(h, r) ==
    r.tag = "Err" =>
        /\ r.handle.key_dir = handle[h].key_dir
        /\ NoRecordAdded(r.dir)
        /\ ActivePath(r.handle) = ActivePath(handle[h])
        /\ r.handle.working_file_id = handle[h].working_file_id

\* C22: whenever put returns an error (of the append, or of the open of the
\* next working file during rotation) the key directory is what it was, no
\* record was added to any segment, and the active segment and its id are
\* those before the call.
C22_FailedPutChangesNothing ==
    \A h \in Handles, k \in Keys, v \in Values, t \in Timestamps :
        handle[h].open =>
            /\ ErrorChangesNothing(h, put(handle[h], dir, k, v, t))
            /\ ErrorChangesNothing(h, put_open_io_error(handle[h], dir, k, v, t))
            /\ \A n \in FaultPoints(EntryNew(k, v, t)) :
                   ErrorChangesNothing(h, put_io_error(handle[h], dir, k, v, t, n))

\* the length of the file a put of this handle appends to, before the put
TargetLen(self) ==
    IF PutTarget(self) \in DOMAIN dir THEN Len(dir[PutTarget(self)]) ELSE 0

\* the tracked size of every active segment is the length of its file
SizeIsLength ==
    \A h \in Writers :
        handle[h].working_file[1].size_b = Len(dir[handle[h].working_file[1].path])

\* the DirEntry a put records addresses the place where its record starts
OffsetIsStart ==
    \A h \in Handles, k \in Keys, v \in Values, t \in Timestamps :
        handle[h].open =>
            LET r == put(handle[h], dir, k, v, t)
            IN  r.tag # "Panic" =>
                    /\ r.handle.key_dir[k].file_name = PutTarget(handle[h])
                    /\ r.handle.key_dir[k].entry_pos = TargetLen(handle[h])
                    /\ Decode(r.dir[PutTarget(handle[h])],
                              r.handle.key_dir[k].entry_pos).tag = "ok"
                    /\ Decode(r.dir[PutTarget(handle[h])],
                              r.handle.key_dir[k].entry_pos).entry = EntryNew(k, v, t)

\* C23: the tracked size of the active segment is always the length of its
\* file, and the offset put records in the DirEntry is the position where the
\* record starts, also after get, delete and an append that failed.
C23_TrackedSizeIsFileLength == SizeIsLength /\ OffsetIsStart

=============================================================================
